---------------------------- MODULE Spec2Model ----------------------------
(***************************************************************************)
(* Model of streamlit_gps_checker.py: the GPS interference pipeline.       *)
(*                                                                         *)
(* Encoding.                                                               *)
(*   - A track point is the tuple <<lat, lon, time>> of the source.  All   *)
(*     model coordinates lie on one meridian (lon = 0) and lat is a        *)
(*     northing in metres, so the geodesic distance between two positions  *)
(*     is the absolute difference of their northings.                      *)
(*   - Python's None is the record None; a present number v is Some(v).    *)
(*   - A float quotient a / b is kept as the exact pair <<a, b>>; the      *)
(*     comparisons ratio > 0.5 and ratio > 0.2 are decided by cross        *)
(*     multiplication (for the point counts a track can have, the          *)
(*     correctly rounded quotient compares with the literals 0.5 and 0.2   *)
(*     exactly as the rational does).                                      *)
(*   - A weather score is kept in tenths (850 is 85.0).                    *)
(***************************************************************************)
EXTENDS Integers, Sequences, FiniteSets

VARIABLES
    uploaded_file,    \* the timed points of the uploaded GPX file
    skip_downsample,  \* sidebar checkbox
    skip_weather,     \* sidebar checkbox
    radius_m,         \* sidebar slider
    min_height,       \* sidebar slider
    raw_points, num_raw, step, points,
    i,                \* loop index of the per-point loop
    buildings,        \* last response of overpass_query
    nearby,           \* last result of buildings_near
    weather,          \* last weather sample
    score,            \* last weather score
    danger_zones, danger_indices, weather_scores,
    warnings,         \* point indices of the st.warning calls, in order
    danger_ratio, quality, avg_weather_score,
    log,              \* per visited point, what the two services answered
    pc

vars == <<uploaded_file, skip_downsample, skip_weather, radius_m, min_height,
          raw_points, num_raw, step, points, i, buildings, nearby, weather,
          score, danger_zones, danger_indices, weather_scores, warnings,
          danger_ratio, quality, avg_weather_score, log, pc>>

(***************************************************************************)
(* Bounds of the model.                                                    *)
(***************************************************************************)
MaxPts == 5        \* longest track of the pipeline specification
Window == 4        \* raw counts checked on each side of a stride threshold
MaxFeat == 2       \* most features in a proximity response (filter spec)
MaxScores == 2     \* most collected scores (weather spec)

(***************************************************************************)
(* Values.                                                                 *)
(***************************************************************************)
None == [isNone |-> TRUE, val |-> 0]
Some(v) == [isNone |-> FALSE, val |-> v]

Abs(x) == IF x < 0 THEN 0 - x ELSE x
Min(a, b) == IF a < b THEN a ELSE b
Max(a, b) == IF a > b THEN a ELSE b

\* The timed points of a GPX file with n of them, 100 m apart on a meridian.
TrackOf(n) == [k \in 1..n |-> <<100 * (k - 1), 0, k - 1>>]

(***************************************************************************)
(* downsample (lines 24-25) and the stride selection of main (117-126).    *)
(***************************************************************************)
\* s[start::stride] for a 1-based start: Python's extended slice
Slice(s, start, stride) ==
    IF start > Len(s) THEN <<>>
    ELSE [j \in 1..((Len(s) - start) \div stride + 1) |->
              s[start + (j - 1) * stride]]

downsample(pts, stp) == IF stp > 1 THEN Slice(pts, 1, stp) ELSE pts

SelectStep_lt(skip, n) ==
    IF skip THEN 1
    ELSE IF n < 300 THEN 1
    ELSE IF n < 1000 THEN 3
    ELSE IF n < 3000 THEN 7
    ELSE 12

SelectStep(skip, n) ==
    IF skip THEN 1
    ELSE IF n <= 300 THEN 1
    ELSE IF n <= 1000 THEN 3
    ELSE IF n <= 3000 THEN 7
    ELSE 12

(***************************************************************************)
(* buildings_near (lines 48-66).                                           *)
(*                                                                         *)
(* A feature of a response's "elements" list is                            *)
(*   [tags |-> whether it has a "tags" object,                             *)
(*    height |-> [kind, val]: the tags.height string; kind "absent" (no    *)
(*       such tag), "text" (float() raises ValueError) or "num" (float()   *)
(*       returns val, in metres),                                          *)
(*    center |-> [kind, lat, lon]: kind "absent" (b.get gives None),       *)
(*       "empty" (a falsy {}), "nolon" (center["lon"] raises KeyError)     *)
(*       or "ok"]                                                          *)
(***************************************************************************)
geodesic(point, pos) == Abs(point[1] - pos[1])

\* line 51
HasHeightTag(b) == b.tags /\ b.height.kind # "absent"

\* line 53: float(b["tags"]["height"]) raises on a non-numeric string
FloatRaises(b) == b.height.kind = "text"

\* lines 57-58: indexing a center without "lon" raises KeyError
CenterRaises(b) == b.center.kind = "nolon"

\* line 56: None and {} are falsy
CenterTruthy(b) == b.center.kind \in {"nolon", "ok"}

\* lines 51-65 for one feature: the entry appended to close, or <<>>
CloseEntry_gt(point, b, radius, height_thresh) ==
    IF ~HasHeightTag(b) THEN <<>>
    ELSE IF FloatRaises(b) THEN <<>>
    ELSE IF ~(b.height.val > height_thresh) THEN <<>>
    ELSE IF ~CenterTruthy(b) THEN <<>>
    ELSE IF CenterRaises(b) THEN <<>>
    ELSE IF geodesic(point, <<b.center.lat, b.center.lon>>) <= radius
         THEN << [lat |-> b.center.lat, lon |-> b.center.lon,
                  height |-> b.height.val] >>
         ELSE <<>>

CloseEntry(point, b, radius, height_thresh) ==
    IF ~HasHeightTag(b) THEN <<>>
    ELSE IF FloatRaises(b) THEN <<>>
    ELSE IF ~(b.height.val >= height_thresh) THEN <<>>
    ELSE IF ~CenterTruthy(b) THEN <<>>
    ELSE IF CenterRaises(b) THEN <<>>
    ELSE IF geodesic(point, <<b.center.lat, b.center.lon>>) <= radius
         THEN << [lat |-> b.center.lat, lon |-> b.center.lon,
                  height |-> b.height.val] >>
         ELSE <<>>

RECURSIVE CloseFrom(_, _, _, _, _)
\* the for loop of lines 50-65 from element k on
CloseFrom(point, elements, k, radius, height_thresh) ==
    IF k > Len(elements) THEN <<>>
    ELSE CloseEntry(point, elements[k], radius, height_thresh)
         \o CloseFrom(point, elements, k + 1, radius, height_thresh)

buildings_near(point, blds, radius, height_thresh) ==
    CloseFrom(point, blds.elements, 1, radius, height_thresh)

(***************************************************************************)
(* estimate_gps_quality (lines 81-87); the ratio is the pair <<k, n>>.     *)
(***************************************************************************)
estimate_gps_quality_ge(ratio) ==
    IF 2 * ratio[1] >= ratio[2] THEN "Baja"
    ELSE IF 5 * ratio[1] >= ratio[2] THEN "Media"
    ELSE "Alta"

estimate_gps_quality(ratio) ==
    IF 2 * ratio[1] > ratio[2] THEN "Baja"         \* danger_ratio > 0.5
    ELSE IF 5 * ratio[1] > ratio[2] THEN "Media"   \* danger_ratio > 0.2
    ELSE "Alta"

(***************************************************************************)
(* get_weather_data (lines 89-101) and compute_weather_score (103-107).    *)
(*                                                                         *)
(* The weather service's answer is [ok |-> whether the request and the     *)
(* parse succeeded, clouds, precip, visibility |-> the first elements of   *)
(* the hourly arrays, each None or Some(number)].                          *)
(***************************************************************************)
NoWeather == [clouds |-> None, precip |-> None, visibility |-> None]

get_weather_data(answer) ==
    IF answer.ok
    THEN [clouds |-> answer.clouds, precip |-> answer.precip,
          visibility |-> answer.visibility]
    ELSE NoWeather

compute_weather_score_zero(clouds, precip, visibility) ==
    IF clouds.isNone \/ precip.isNone \/ visibility.isNone THEN Some(0)
    ELSE LET s == 1000 - (clouds.val * 3 + precip.val * 50
                          + (10 - Min(visibility.val, 10)) * 50)
         IN  Some(Max(0, Min(1000, s)))

\* the score in tenths
compute_weather_score(clouds, precip, visibility) ==
    IF clouds.isNone \/ precip.isNone \/ visibility.isNone THEN None
    ELSE LET s == 1000 - (clouds.val * 3 + precip.val * 50
                          + (10 - Min(visibility.val, 10)) * 50)
         IN  Some(Max(0, Min(1000, s)))

CollectScore_always(scores, sc) == Append(scores, sc.val)

\* lines 148-149
CollectScore(scores, sc) == IF ~sc.isNone THEN Append(scores, sc.val) ELSE scores

(***************************************************************************)
(* The per-point loop body of main (lines 140-164).                        *)
(***************************************************************************)
AppendZone_weather(zones, idx, pt, nb, w) ==
    IF nb # <<>> \/ (~w.precip.isNone /\ w.precip.val > 0)
    THEN Append(zones, [index |-> idx, lat |-> pt[1], lon |-> pt[2],
                        time |-> pt[3], num_buildings |-> Len(nb),
                        weather |-> w])
    ELSE zones

AppendZone_next(zones, idx, pt, nb, w) ==
    IF nb # <<>>
    THEN Append(zones, [index |-> idx + 1, lat |-> pt[1], lon |-> pt[2],
                        time |-> pt[3], num_buildings |-> Len(nb),
                        weather |-> w])
    ELSE zones

\* lines 153-161
AppendZone(zones, idx, pt, nb, w) ==
    IF nb # <<>>
    THEN Append(zones, [index |-> idx, lat |-> pt[1], lon |-> pt[2],
                        time |-> pt[3], num_buildings |-> Len(nb),
                        weather |-> w])
    ELSE zones

\* lines 153, 162
AddIndex(indices, idx, nb) == IF nb # <<>> THEN indices \cup {idx} ELSE indices

\* The try block (lines 142-162) for point idx.  prox is the answer of the
\* building service, [ok, elements]; answer is the answer of the weather
\* service.  raised: overpass_query raised (line 44 or 45), and the block
\* changed nothing.
TryBlock(idx, pt, prox, answer, skipw, radius, minh, zones, indices, scores, sc0) ==
    IF ~prox.ok
    THEN [raised |-> TRUE, buildings |-> [elements |-> <<>>], nearby |-> <<>>,
          weather |-> NoWeather, score |-> sc0, zones |-> zones,
          indices |-> indices, scores |-> scores]
    ELSE LET blds == [elements |-> prox.elements]
             nb == buildings_near(<<pt[1], pt[2]>>, blds, radius, minh)
             w == IF ~skipw THEN get_weather_data(answer) ELSE NoWeather
             sc == IF ~skipw
                   THEN compute_weather_score(w.clouds, w.precip, w.visibility)
                   ELSE sc0
         IN  [raised |-> FALSE, buildings |-> blds, nearby |-> nb,
              weather |-> w, score |-> sc,
              zones |-> AppendZone(zones, idx, pt, nb, w),
              indices |-> AddIndex(indices, idx, nb),
              scores |-> IF ~skipw THEN CollectScore(scores, sc) ELSE scores]

ExceptHandler_reraise(idx, warns) == [warnings |-> warns, pc |-> "aborted"]

ExceptHandler_silent(idx, warns) == [warnings |-> warns, pc |-> "loop"]

\* lines 163-164: st.warning names the point, and the loop goes on
ExceptHandler(idx, warns) == [warnings |-> Append(warns, idx), pc |-> "loop"]

(***************************************************************************)
(* What the two services can answer in the pipeline specification.         *)
(***************************************************************************)
Feature(hkind, h, ckind, lat) ==
    [tags |-> TRUE, height |-> [kind |-> hkind, val |-> h],
     center |-> [kind |-> ckind, lat |-> lat, lon |-> 0]]

NoTags == [tags |-> FALSE, height |-> [kind |-> "absent", val |-> 0],
           center |-> [kind |-> "ok", lat |-> 0, lon |-> 0]]

ProxAnswers(pt) ==
    { [ok |-> FALSE, elements |-> <<>>],
      \* a 20 m building 30 m away, after a feature with a non-numeric height
      [ok |-> TRUE, elements |-> << Feature("text", 0, "ok", pt[1] + 10),
                                    Feature("num", 20, "ok", pt[1] + 30) >>],
      \* nothing qualifies: too low, and too far
      [ok |-> TRUE, elements |-> << Feature("num", 10, "ok", pt[1] + 10),
                                    Feature("num", 40, "ok", pt[1] + 90) >>] }

WeatherAnswer(ok, c, p, v) == [ok |-> ok, clouds |-> c, precip |-> p, visibility |-> v]

FailedWeather == WeatherAnswer(FALSE, None, None, None)

WeatherAnswers ==
    { FailedWeather,
      WeatherAnswer(TRUE, None, Some(0), Some(10)),       \* partly null
      WeatherAnswer(TRUE, Some(0), Some(0), Some(10)),    \* good
      WeatherAnswer(TRUE, Some(100), Some(25), Some(0)) } \* poor

(***************************************************************************)
(* The pipeline: main (lines 110-179).                                     *)
(***************************************************************************)
Unset == <<0, 0>>

Blank ==
    /\ raw_points = <<>> /\ num_raw = 0 /\ step = 0 /\ points = <<>>
    /\ i = 0
    /\ buildings = [elements |-> <<>>] /\ nearby = <<>>
    /\ weather = NoWeather /\ score = None
    /\ danger_zones = <<>> /\ danger_indices = {} /\ weather_scores = <<>>
    /\ warnings = <<>>
    /\ danger_ratio = Unset /\ quality = "" /\ avg_weather_score = Unset
    /\ log = <<>>

\* The sidebar inputs at their defaults (lines 17-19) except skip_weather;
\* tracks of up to MaxPts points all have stride 1 whatever skip_downsample
\* is, and SpecDown below covers both values of it on long tracks.
Init ==
    /\ uploaded_file \in {TrackOf(n) : n \in 0..MaxPts}
    /\ skip_downsample = FALSE
    /\ skip_weather \in BOOLEAN
    /\ radius_m = 50
    /\ min_height = 15
    /\ Blank
    /\ pc = "start"

\* lines 113-134: ingestion, stride selection, downsampling, empty accumulators
Ingest ==
    /\ pc = "start"
    /\ raw_points' = uploaded_file
    /\ num_raw' = Len(uploaded_file)
    /\ step' = SelectStep(skip_downsample, Len(uploaded_file))
    /\ points' = downsample(uploaded_file, SelectStep(skip_downsample, Len(uploaded_file)))
    /\ danger_zones' = <<>> /\ danger_indices' = {} /\ weather_scores' = <<>>
    /\ pc' = "loop"
    /\ UNCHANGED <<uploaded_file, skip_downsample, skip_weather, radius_m,
                   min_height, i, buildings, nearby, weather, score, warnings,
                   danger_ratio, quality, avg_weather_score, log>>

\* lines 140-169: one iteration of the loop, for the point of index i
\* (i counts the points already processed, so it is enumerate's index of
\* the next one).
ProcessPoint ==
    /\ pc = "loop"
    /\ i < Len(points)
    /\ \E prox \in ProxAnswers(points[i + 1]) :
       \E answer \in IF prox.ok /\ ~skip_weather THEN WeatherAnswers
                     ELSE {FailedWeather} :
          LET r == TryBlock(i, points[i + 1], prox, answer, skip_weather,
                            radius_m, min_height, danger_zones,
                            danger_indices, weather_scores, score)
              h == IF r.raised THEN ExceptHandler(i, warnings)
                   ELSE [warnings |-> warnings, pc |-> "loop"]
          IN  /\ buildings' = IF r.raised THEN buildings ELSE r.buildings
              /\ nearby' = IF r.raised THEN nearby ELSE r.nearby
              /\ weather' = IF r.raised THEN weather ELSE r.weather
              /\ score' = r.score
              /\ danger_zones' = r.zones
              /\ danger_indices' = r.indices
              /\ weather_scores' = r.scores
              /\ warnings' = h.warnings
              /\ pc' = h.pc
              /\ log' = Append(log, [index |-> i, prox |-> prox,
                                     asked |-> prox.ok /\ ~skip_weather,
                                     answer |-> answer])
    /\ i' = i + 1
    /\ UNCHANGED <<uploaded_file, skip_downsample, skip_weather, radius_m,
                   min_height, raw_points, num_raw, step, points,
                   danger_ratio, quality, avg_weather_score>>

RECURSIVE Sum(_)
Sum(s) == IF s = <<>> THEN 0 ELSE Head(s) + Sum(Tail(s))

\* lines 171-179: the ratio divides by len(points)
Aggregate ==
    /\ pc = "loop"
    /\ i = Len(points)
    /\ IF Len(points) = 0
       THEN /\ pc' = "ZeroDivisionError"
            /\ UNCHANGED <<danger_ratio, quality, avg_weather_score>>
       ELSE /\ danger_ratio' = <<Cardinality(danger_indices), Len(points)>>
            /\ quality' = estimate_gps_quality(
                              <<Cardinality(danger_indices), Len(points)>>)
            /\ avg_weather_score' =
                   IF weather_scores # <<>> /\ ~skip_weather
                   THEN <<Sum(weather_scores), Len(weather_scores)>>
                   ELSE avg_weather_score
            /\ pc' = "done"
    /\ UNCHANGED <<uploaded_file, skip_downsample, skip_weather, radius_m,
                   min_height, raw_points, num_raw, step, points, i,
                   buildings, nearby, weather, score, danger_zones,
                   danger_indices, weather_scores, warnings, log>>

Next == Ingest \/ ProcessPoint \/ Aggregate

Spec == Init /\ [][Next]_vars

(***************************************************************************)
(* Stride selection and downsampling on tracks around the thresholds.      *)
(***************************************************************************)
StrideCases ==
    (0..Window) \cup (300 - Window .. 300 + Window)
    \cup (1000 - Window .. 1000 + Window) \cup (3000 - Window .. 3000 + Window)

InitDown ==
    /\ uploaded_file \in {TrackOf(n) : n \in StrideCases}
    /\ skip_downsample \in BOOLEAN
    /\ skip_weather = TRUE
    /\ radius_m = 50
    /\ min_height = 15
    /\ Blank
    /\ pc = "start"

NextDown == Ingest

SpecDown == InitDown /\ [][NextDown]_vars

(***************************************************************************)
(* buildings_near on every response of up to MaxFeat features.             *)
(***************************************************************************)
SeqsUpTo(S, n) == UNION {[1..k -> S] : k \in 0..n}

FilterFeatures ==
    {NoTags} \cup
    { [tags |-> TRUE, height |-> h, center |-> c] :
        h \in { [kind |-> "absent", val |-> 0], [kind |-> "text", val |-> 0],
                [kind |-> "num", val |-> 14], [kind |-> "num", val |-> 15],
                [kind |-> "num", val |-> 20] },
        c \in { [kind |-> "absent", lat |-> 0, lon |-> 0],
                [kind |-> "empty", lat |-> 0, lon |-> 0],
                [kind |-> "nolon", lat |-> 10, lon |-> 0],
                [kind |-> "ok", lat |-> 30, lon |-> 0],
                [kind |-> "ok", lat |-> 0 - 50, lon |-> 0],
                [kind |-> "ok", lat |-> 51, lon |-> 0] } }

InitFilter ==
    /\ uploaded_file = TrackOf(1)
    /\ skip_downsample = FALSE
    /\ skip_weather = TRUE
    /\ radius_m \in {30, 50}
    /\ min_height \in {15, 20}
    /\ raw_points = TrackOf(1) /\ num_raw = 1 /\ step = 1
    /\ points = TrackOf(1)
    /\ i = 0
    /\ buildings \in {[elements |-> e] : e \in SeqsUpTo(FilterFeatures, MaxFeat)}
    /\ nearby = <<>>
    /\ weather = NoWeather /\ score = None
    /\ danger_zones = <<>> /\ danger_indices = {} /\ weather_scores = <<>>
    /\ warnings = <<>>
    /\ danger_ratio = Unset /\ quality = "" /\ avg_weather_score = Unset
    /\ log = <<>>
    /\ pc = "filter"

\* line 143 on its own
FilterCall ==
    /\ pc = "filter"
    /\ nearby' = buildings_near(<<points[1][1], points[1][2]>>, buildings,
                                radius_m, min_height)
    /\ pc' = "filtered"
    /\ UNCHANGED <<uploaded_file, skip_downsample, skip_weather, radius_m,
                   min_height, raw_points, num_raw, step, points, i,
                   buildings, weather, score, danger_zones, danger_indices,
                   weather_scores, warnings, danger_ratio, quality,
                   avg_weather_score, log>>

NextFilter == FilterCall

SpecFilter == InitFilter /\ [][NextFilter]_vars

(***************************************************************************)
(* Weather scoring and collection (lines 146-149) on a wide range of       *)
(* answers.                                                                *)
(***************************************************************************)
ScoreAnswers ==
    {FailedWeather} \cup
    { WeatherAnswer(TRUE, c, p, v) :
        c \in {None, Some(0), Some(50), Some(100)},
        p \in {None, Some(0), Some(25)},
        v \in {None, Some(0 - 5), Some(10), Some(24140)} }

InitWeather ==
    /\ uploaded_file = TrackOf(1)
    /\ skip_downsample = FALSE
    /\ skip_weather = FALSE
    /\ radius_m = 50
    /\ min_height = 15
    /\ raw_points = TrackOf(1) /\ num_raw = 1 /\ step = 1
    /\ points = TrackOf(1)
    /\ i = 0
    /\ buildings = [elements |-> <<>>] /\ nearby = <<>>
    /\ weather = NoWeather /\ score = None
    /\ danger_zones = <<>> /\ danger_indices = {} /\ weather_scores = <<>>
    /\ warnings = <<>>
    /\ danger_ratio = Unset /\ quality = "" /\ avg_weather_score = Unset
    /\ log = <<>>
    /\ pc = "weather"

\* lines 146-149 on their own; log keeps the answers
WeatherCall ==
    /\ pc = "weather"
    /\ Len(log) < MaxScores
    /\ \E answer \in ScoreAnswers :
          LET w == get_weather_data(answer)
              sc == compute_weather_score(w.clouds, w.precip, w.visibility)
          IN  /\ weather' = w
              /\ score' = sc
              /\ weather_scores' = CollectScore(weather_scores, sc)
              /\ log' = Append(log, [index |-> 0,
                                     prox |-> [ok |-> TRUE, elements |-> <<>>],
                                     asked |-> TRUE, answer |-> answer])
    /\ UNCHANGED <<uploaded_file, skip_downsample, skip_weather, radius_m,
                   min_height, raw_points, num_raw, step, points, i,
                   buildings, nearby, danger_zones, danger_indices, warnings,
                   danger_ratio, quality, avg_weather_score, pc>>

NextWeather == WeatherCall

SpecWeather == InitWeather /\ [][NextWeather]_vars

(***************************************************************************)
(* Properties.                                                             *)
(***************************************************************************)
Visited == 1..Len(log)

Complete(a) == a.ok /\ ~a.clouds.isNone /\ ~a.precip.isNone /\ ~a.visibility.isNone

\* b is a building of at least the threshold height within the radius
Qualifies(point, b, radius, thresh) ==
    /\ b.tags
    /\ b.height.kind = "num"
    /\ b.height.val >= thresh
    /\ b.center.kind = "ok"
    /\ Abs(b.center.lat - point[1]) <= radius

\* the building service answered visit k with a qualifying building
HasQualifying(k) ==
    /\ log[k].prox.ok
    /\ \E j \in 1..Len(log[k].prox.elements) :
          Qualifies(points[log[k].index + 1], log[k].prox.elements[j],
                    radius_m, min_height)

ZoneIndexSet == {danger_zones[j].index : j \in 1..Len(danger_zones)}

\* C1: an empty point sequence is rejected before the danger ratio is
\* computed, so no run ends in a division by zero.
C1_NoZeroDivision == pc # "ZeroDivisionError"

\* C2: failures of a point do not abort the loop: the points are visited
\* once each in increasing index order, a run over a non-empty sequence
\* ends with the ratio and the quality label, and a point whose proximity
\* query failed is in neither danger_indices nor danger_zones.
C2_LoopSurvivesFailures ==
    /\ pc \in {"start", "loop", "done", "ZeroDivisionError"}
    /\ pc = "ZeroDivisionError" => Len(points) = 0
    /\ pc = "loop" => Len(log) = i /\ i <= Len(points)
    /\ \A k \in Visited : log[k].index = k - 1
    /\ pc = "done" => /\ Len(log) = Len(points)
                      /\ danger_ratio # Unset
                      /\ quality \in {"Baja", "Media", "Alta"}
    /\ \A k \in Visited :
          ~log[k].prox.ok => /\ log[k].index \notin danger_indices
                             /\ log[k].index \notin ZoneIndexSet

C2_Witness ==
    /\ pc = "done"
    /\ Len(points) >= 3
    /\ ~log[1].prox.ok
    /\ log[2].asked /\ ~log[2].answer.ok
    /\ log[3].prox.ok

\* C3 as stated: a failure of either service at point i gives a warning
\* for i.
C3_WarningForBothServices ==
    \A k \in Visited :
        (~log[k].prox.ok \/ (log[k].asked /\ ~log[k].answer.ok))
        => \E j \in 1..Len(warnings) : warnings[j] = log[k].index

\* C3 amended: the warnings are exactly the indices of the points whose
\* proximity query failed, in order; a failed weather query gives no
\* warning and the sample is all null.
C3_WarningForProximityOnly ==
    /\ Len(warnings) = Cardinality({k \in Visited : ~log[k].prox.ok})
    /\ \A j \in 1..Len(warnings) :
          /\ warnings[j] + 1 \in Visited
          /\ ~log[warnings[j] + 1].prox.ok
          /\ j > 1 => warnings[j - 1] < warnings[j]
    /\ (pc = "loop" /\ i > 0 /\ log[i].asked /\ ~log[i].answer.ok)
          => weather = NoWeather

C3_Witness ==
    /\ Len(log) = 2
    /\ ~log[1].prox.ok
    /\ log[2].asked /\ ~log[2].answer.ok
    /\ warnings = <<0>>

\* C4: the stride follows the table (1 if skip_downsample or n <= 300, 3 up
\* to 1000, 7 up to 3000, else 12) and the downsampled sequence is the raw
\* points of indices 0, step, 2 step, ... in order: ceil(n / step) points,
\* raw index 0 first, and the raw sequence itself for step 1.
C4_StrideTable ==
    pc = "loop" =>
        LET n == Len(uploaded_file) IN
        /\ raw_points = uploaded_file /\ num_raw = n
        /\ (skip_downsample \/ n <= 300) => step = 1
        /\ (~skip_downsample /\ 300 < n /\ n <= 1000) => step = 3
        /\ (~skip_downsample /\ 1000 < n /\ n <= 3000) => step = 7
        /\ (~skip_downsample /\ n > 3000) => step = 12
        /\ step >= 1
        /\ Len(points) * step >= n /\ (Len(points) - 1) * step < n
        /\ \A j \in 1..Len(points) : points[j] = raw_points[(j - 1) * step + 1]
        /\ n > 0 => points[1] = raw_points[1]
        /\ step = 1 => points = raw_points

C4_Witness ==
    /\ pc = "loop"
    /\ ~skip_downsample
    /\ num_raw = 1001
    /\ step = 7
    /\ Len(points) = 143
    /\ points[143][3] = 994

\* C5: the quality label classifies |danger_indices| / |points|: above 0.5
\* Low (Baja), above 0.2 and at most 0.5 Medium (Media), at most 0.2 High
\* (Alta); exactly 0.2 is High and exactly 0.5 is Medium.
C5_QualityBoundaries ==
    pc = "done" =>
        LET k == Cardinality(danger_indices)
            n == Len(points)
        IN  /\ danger_ratio = <<k, n>>
            /\ 10 * k > 5 * n => quality = "Baja"
            /\ (10 * k > 2 * n /\ 10 * k <= 5 * n) => quality = "Media"
            /\ 10 * k <= 2 * n => quality = "Alta"

C5_Witness ==
    /\ pc = "done"
    /\ Len(points) = 5
    /\ danger_indices = {2}
    /\ quality = "Alta"

\* C6: a zone is recorded for point i, and i is a danger index, exactly
\* when the building service answered i with a qualifying building; the
\* weather answers and skip_weather play no part, so the danger indices and
\* the quality label are determined by the building answers alone.
C6_ZonesFromBuildingsOnly ==
    LET hits == {log[k].index : k \in {v \in Visited : HasQualifying(v)}} IN
    /\ danger_indices = hits
    /\ ZoneIndexSet = hits
    /\ Len(danger_zones) = Cardinality(hits)
    /\ pc = "done" =>
          quality = IF 2 * Cardinality(hits) > Len(points) THEN "Baja"
                    ELSE IF 5 * Cardinality(hits) > Len(points) THEN "Media"
                    ELSE "Alta"

C6_Witness ==
    /\ pc = "done"
    /\ Len(points) = 2
    /\ ~skip_weather
    /\ ~HasQualifying(1) /\ log[1].answer = WeatherAnswer(TRUE, Some(100), Some(25), Some(0))
    /\ HasQualifying(2) /\ ~log[2].answer.ok
    /\ danger_indices = {1}

\* C7: during and after the loop the zone indices are strictly increasing,
\* lie in [0, len(points)), and are exactly danger_indices, so the ratio is
\* within [0, 1].
C7_ZoneIndices ==
    /\ \A j \in 1..Len(danger_zones) :
          /\ danger_zones[j].index >= 0
          /\ danger_zones[j].index < Len(points)
          /\ j > 1 => danger_zones[j - 1].index < danger_zones[j].index
    /\ ZoneIndexSet = danger_indices
    /\ pc = "done" => /\ danger_ratio[1] = Len(danger_zones)
                      /\ 0 <= danger_ratio[1]
                      /\ danger_ratio[1] <= danger_ratio[2]
                      /\ danger_ratio[2] = Len(points)

C7_Witness ==
    /\ pc = "done"
    /\ Len(danger_zones) = 2
    /\ danger_zones[1].index = 0
    /\ danger_zones[2].index = Len(points) - 1
    /\ Len(points) >= 3

\* C8: buildings_near returns, in discovery order and without
\* deduplication, exactly the features with a numeric height >= the
\* threshold and a center at most radius away; any other feature is
\* skipped without affecting the rest.
C8_FilterExact ==
    pc = "filtered" =>
        LET pt == points[1]
            Keep(b) == Qualifies(pt, b, radius_m, min_height)
            kept == SelectSeq(buildings.elements, Keep)
        IN  /\ Len(nearby) = Len(kept)
            /\ \A j \in 1..Len(kept) :
                  nearby[j] = [lat |-> kept[j].center.lat,
                               lon |-> kept[j].center.lon,
                               height |-> kept[j].height.val]

C8_Witness ==
    /\ pc = "filtered"
    /\ Len(buildings.elements) = 2
    /\ buildings.elements[1].height.kind = "text"
    /\ buildings.elements[2].height = [kind |-> "num", val |-> min_height]
    /\ buildings.elements[2].center.kind = "ok"
    /\ Abs(buildings.elements[2].center.lat - points[1][1]) = radius_m
    /\ Len(nearby) = 1

\* C9: the score is null when a field of the sample is null, and a null
\* score is never collected; otherwise it is
\* clamp(100 - (clouds * 0.3 + precip * 5 + (10 - min(visibility, 10)) * 5))
\* within [0, 100], with score(0, 0, 10) = 100 and score(50, 0, 10) = 85.
C9_WeatherScore ==
    Len(log) > 0 =>
        LET a == log[Len(log)].answer
            raw == 1000 - (3 * a.clouds.val + 50 * a.precip.val
                           + 50 * (10 - (IF a.visibility.val > 10 THEN 10
                                         ELSE a.visibility.val)))
        IN  /\ ~Complete(a) => score = None
            /\ Complete(a) =>
                  /\ ~score.isNone
                  /\ score.val >= 0 /\ score.val <= 1000
                  /\ raw < 0 => score.val = 0
                  /\ raw > 1000 => score.val = 1000
                  /\ (0 <= raw /\ raw <= 1000) => score.val = raw
            /\ a = WeatherAnswer(TRUE, Some(0), Some(0), Some(10)) => score = Some(1000)
            /\ a = WeatherAnswer(TRUE, Some(50), Some(0), Some(10)) => score = Some(850)
            /\ Len(weather_scores) =
                  Cardinality({k \in Visited : Complete(log[k].answer)})
            /\ \A j \in 1..Len(weather_scores) :
                  weather_scores[j] >= 0 /\ weather_scores[j] <= 1000

C9_Witness ==
    /\ Len(log) = 2
    /\ log[1].answer = WeatherAnswer(TRUE, Some(0), None, Some(10))
    /\ log[2].answer = WeatherAnswer(TRUE, Some(100), Some(25), Some(0 - 5))
    /\ weather_scores = <<0>>
    /\ score = Some(0)

\* C10: a score is collected for point i exactly when skip_weather is
\* false, the proximity query of i succeeded and the sample of i has its
\* three fields; qualifying buildings play no part; so the scores are never
\* more than the points whose proximity query succeeded, and there are none
\* when skip_weather is true.
C10_ScoreCollection ==
    /\ Len(weather_scores) =
          Cardinality({k \in Visited : /\ ~skip_weather
                                       /\ log[k].prox.ok
                                       /\ Complete(log[k].answer)})
    /\ Len(weather_scores) <= Cardinality({k \in Visited : log[k].prox.ok})
    /\ skip_weather => weather_scores = <<>>
    /\ pc = "done" => (avg_weather_score # Unset <=> weather_scores # <<>>)

C10_Witness ==
    /\ pc = "done"
    /\ Len(points) = 3
    /\ ~log[1].prox.ok
    /\ log[2].prox.ok /\ ~HasQualifying(2) /\ Complete(log[2].answer)
    /\ HasQualifying(3) /\ log[3].answer.ok /\ ~Complete(log[3].answer)
    /\ Len(weather_scores) = 1
    /\ avg_weather_score[2] = 1

=============================================================================
